---- MODULE Spec2Model ----
(***************************************************************************)
(* Michaelsoft Mail Sender: the MailSender core (load_config, save_config, *)
(* send_mail) and the two MailSenderGUI handlers that call into it         *)
(* (_save_config, _test_connection), as a state machine.                   *)
(*                                                                         *)
(*   Spec      one MailSender instance serving a sequence of send_mail     *)
(*             calls, each call stepping through its phases                *)
(*   SpecStore the configuration store: MailSender(), load_config,         *)
(*             save_config against one configuration file                  *)
(*   SpecGui   the MailSenderGUI handlers around the store                 *)
(***************************************************************************)
EXTENDS Integers, Sequences, FiniteSets, TLC

VARIABLES
    config,       \* MailSender.config: a dict, here a function on its keys
    file,         \* the content of mail_config.json on disk
    pc,           \* the phase of the send_mail call in progress
    recipients,   \* send_mail arguments
    subject,
    body,
    attachments,
    html,
    msg,          \* the MIMEMultipart message being composed
    trace,        \* the phases the current call has entered, in order
    connects,     \* SMTP_SSL constructor calls made by the current call
    sessions,     \* the SMTP sessions in existence: owner, open flag, users
    server,       \* index in sessions of the current call's session, 0 if none
    ret,          \* what the current call gave its caller
    failures,     \* the network failures that occurred in the current call
    calls,        \* send_mail calls started so far
    lastOp,       \* the store/GUI operation that ran last
    saveIo,       \* what the last save_config met on disk
    saveSeen,     \* what the caller of the last save_config observed
    saved,        \* the dict of the last save_config the disk did not fail,
                  \* while the file is as that save left it
    before,       \* config as it was when the last operation started
    loaded,       \* the pairs with a key the GUI does not know that the last
                  \* load_config took from the file
    entries,      \* the four Entry widgets of the configuration page
    current_lang, \* MailSenderGUI.current_lang
    status,       \* MailSenderGUI.status_var
    dialog,       \* the last messagebox shown
    testCause,    \* what the last _test_connection ran into
    rejectsAuth   \* the endpoint of the last _test_connection refuses the login

sendVars == <<pc, recipients, subject, body, attachments, html, msg, trace,
              connects, sessions, server, ret, failures, calls>>
storeVars == <<lastOp, saveIo, saveSeen, saved, before, loaded>>
guiVars == <<entries, current_lang, status, dialog, testCause, rejectsAuth>>
vars == <<config, file, sendVars, storeVars, guiVars>>

------------------------------------------------------------------------------
(* Bounds *)

MaxCalls == 2
MaxAttachments == 2

------------------------------------------------------------------------------
(* Dicts: a Python dict with string keys is a function on the set of its keys *)

EmptyDict == [k \in {} |-> ""]

\* dict.get(k) is falsy when the key is absent or its value is the empty string
Truthy(d, k) == k \in DOMAIN d /\ d[k] # ""

\* d[k] = v
SetItem(d, k, v) == [x \in DOMAIN d \cup {k} |-> IF x = k THEN v ELSE d[x]]

RequiredKeys == {"smtp_server", "smtp_port", "sender_email", "password"}

\* the keys MailSenderGUI reads and writes
RecognizedKeys == RequiredKeys \cup {"language"}

\* the pairs of d whose key is outside the recognized set
Unknown(d) == [k \in DOMAIN d \ RecognizedKeys |-> d[k]]

\* the strings a configuration value or an Entry widget may hold
ValuesOf(k) == IF k = "smtp_port" THEN {"", "465", "abc"}
               ELSE IF k = "language" THEN {"zh_CN", "en_US"}
               ELSE IF k = "theme" THEN {"dark"}
               ELSE {"", "x"}

AllValues == {"", "465", "abc", "zh_CN", "en_US", "dark", "x"}

DictsOver(K) ==
    UNION { {d \in [D -> AllValues] : \A k \in D : d[k] \in ValuesOf(k)} : D \in SUBSET K }

\* int(s) raises ValueError unless s is a decimal numeral
IsIntString(s) == s \in {"465"}

------------------------------------------------------------------------------
(* send_mail *)

Addresses == {"a@example.com", "b@example.com"}
Subjects == {"", "Hi"}
Bodies == {"body"}

\* attachment paths, as their components; the last one is the base name
Paths == {<<"home", "a.txt">>, <<"tmp", "b.pdf">>, <<"tmp", "gone.bin">>}
ReadablePaths == {<<"home", "a.txt">>, <<"tmp", "b.pdf">>}

\* lists of distinct elements of S, at most n long
RECURSIVE ListsOf(_, _)
ListsOf(S, n) ==
    IF n = 0 THEN {<<>>}
    ELSE LET shorter == ListsOf(S, n - 1)
         IN  shorter \cup { Append(l, x) : l \in shorter, x \in S }

RecipientLists == { l \in ListsOf(Addresses, Cardinality(Addresses)) :
                      \A i, j \in 1..Len(l) : l[i] = l[j] => i = j }
AttachmentLists == ListsOf(Paths, MaxAttachments)

basename(p) == p[Len(p)]

\* open(file_path, 'rb') raises for a path that cannot be read
CanRead(p) == p \in ReadablePaths

\* ", ".join(l)
RECURSIVE Join(_)
Join(l) == IF l = <<>> THEN ""
           ELSE IF Len(l) = 1 THEN l[1]
           ELSE l[1] \o ", " \o Join(Tail(l))

NoMsg == [From |-> "", To |-> "", Subject |-> "", parts |-> <<>>]

TextPart(b, h) ==
    [ctype |-> IF h THEN "text/html" ELSE "text/plain", charset |-> "utf-8",
     payload |-> b, name |-> "", disposition |-> ""]

AttachmentPart(p) ==
    [ctype |-> "application/octet-stream", charset |-> "",
     payload |-> p, name |-> basename(p),
     disposition |-> "attachment; filename=\"" \o basename(p) \o "\""]

\* the loop as it would be if a failed read ended it
RECURSIVE AttachUntilFailure(_, _)
AttachUntilFailure(parts, l) ==
    IF l = <<>> THEN parts
    ELSE IF CanRead(Head(l))
         THEN AttachUntilFailure(Append(parts, AttachmentPart(Head(l))), Tail(l))
    ELSE parts

\* the for loop over attachments: a path that cannot be read is logged and skipped
RECURSIVE AttachAll(_, _)
AttachAll(parts, l) ==
    IF l = <<>> THEN parts
    ELSE IF CanRead(Head(l)) THEN AttachAll(Append(parts, AttachmentPart(Head(l))), Tail(l))
    ELSE AttachAll(parts, Tail(l))

ComposeMessage(c, r, s, b, a, h) ==
    [From |-> c["sender_email"], To |-> Join(r), Subject |-> s,
     parts |-> AttachAll(<<TextPart(b, h)>>, a)]

\* the three checks that precede composition
RecipientsUnchecked(r) == TRUE
RecipientsOk(r) == r # <<>>
ServerConfigOk(c) == Truthy(c, "smtp_server") /\ Truthy(c, "smtp_port")
SenderWithoutPassword(c) == Truthy(c, "sender_email")
SenderConfigOk(c) == Truthy(c, "sender_email") /\ Truthy(c, "password")

\* what the network can answer to each step
ConnectOutcomes == {"ok", "dns", "tls", "timeout"}
LoginOutcomes == {"ok", "auth", "timeout"}
\* smtplib's sendmail raises when every recipient is refused and returns the
\* refused ones when only some are
SendmailOutcomes == {"ok", "rcpt_all", "rcpt_some", "timeout"}
QuitOutcomes == {"ok", "error"}

OpenSession(ss, c) == Append(ss, [owner |-> c, open |-> TRUE, users |-> {c}])

UseSession(ss, i, c) == [ss EXCEPT ![i].users = @ \cup {c}]

\* a session closed on the normal path only
ExitSessionIfClean(ss, i, raised) == IF raised THEN ss ELSE [ss EXCEPT ![i].open = FALSE]

\* SMTP_SSL.__exit__: sends QUIT and closes the socket, exception or not
ExitSession(ss, i, raised) == [ss EXCEPT ![i].open = FALSE]

Returned == {"Succeeded", "Failed"}

Enter(phase) == /\ pc' = phase
                /\ trace' = Append(trace, phase)

\* the except clause of send_mail and the early returns: log, return False
ReturnFalse == /\ Enter("Failed")
               /\ ret' = "False"

ReturnTrue == /\ Enter("Succeeded")
              /\ ret' = "True"

send_mail(r, s, b, a, h) ==
    /\ pc = "idle"
    /\ calls < MaxCalls
    /\ calls' = calls + 1
    /\ recipients' = r /\ subject' = s /\ body' = b /\ attachments' = a /\ html' = h
    /\ pc' = "Validating"
    /\ trace' = <<"Validating">>
    /\ msg' = NoMsg
    /\ connects' = 0
    /\ server' = 0
    /\ ret' = "pending"
    /\ failures' = {}
    /\ UNCHANGED <<config, file, sessions, storeVars, guiVars>>

Validate ==
    /\ pc = "Validating"
    /\ IF RecipientsOk(recipients) /\ ServerConfigOk(config) /\ SenderConfigOk(config)
       THEN Enter("Composing") /\ UNCHANGED ret
       ELSE ReturnFalse
    /\ UNCHANGED <<config, file, recipients, subject, body, attachments, html, msg,
                   connects, sessions, server, failures, calls, storeVars, guiVars>>

Compose ==
    /\ pc = "Composing"
    /\ msg' = ComposeMessage(config, recipients, subject, body, attachments, html)
    /\ Enter("Connecting")
    /\ UNCHANGED <<config, file, recipients, subject, body, attachments, html,
                   connects, sessions, server, ret, failures, calls, storeVars, guiVars>>

\* a failed connection attempted again
ConnectRetried(o) ==
    /\ failures' = failures \cup {o}
    /\ Enter("Connecting")
    /\ UNCHANGED <<ret, sessions, server>>

\* SMTP_SSL(...) raised: the except clause ends the call
ConnectFailed(o) ==
    /\ failures' = failures \cup {o}
    /\ ReturnFalse
    /\ UNCHANGED <<sessions, server>>

\* int(port) evaluated outside the try block: the ValueError reaches the caller
PortRaised ==
    /\ Enter("Failed")
    /\ ret' = "raise"
    /\ UNCHANGED <<connects, sessions, server, failures>>

\* int(port) raised ValueError inside the try block, before SMTP_SSL is called:
\* the except clause ends the call
PortRejected ==
    /\ ReturnFalse
    /\ UNCHANGED <<connects, sessions, server, failures>>

Connect ==
    /\ pc = "Connecting"
    /\ IF ~IsIntString(config["smtp_port"])
       THEN PortRejected
       ELSE \E o \in ConnectOutcomes :
              /\ connects' = connects + 1
              /\ IF o = "ok"
                 THEN /\ sessions' = OpenSession(sessions, calls)
                      /\ server' = Len(sessions')
                      /\ Enter("Authenticating")
                      /\ UNCHANGED <<ret, failures>>
                 ELSE ConnectFailed(o)
    /\ UNCHANGED <<config, file, recipients, subject, body, attachments, html, msg,
                   calls, storeVars, guiVars>>

Authenticate ==
    /\ pc = "Authenticating"
    /\ \E o \in LoginOutcomes :
         IF o = "ok"
         THEN /\ sessions' = UseSession(sessions, server, calls)
              /\ Enter("Transmitting")
              /\ UNCHANGED <<ret, failures>>
         ELSE /\ sessions' = ExitSession(UseSession(sessions, server, calls), server, TRUE)
              /\ failures' = failures \cup {o}
              /\ ReturnFalse
    /\ UNCHANGED <<config, file, recipients, subject, body, attachments, html, msg,
                   connects, server, calls, storeVars, guiVars>>

Transmit ==
    /\ pc = "Transmitting"
    /\ \E o \in SendmailOutcomes, q \in QuitOutcomes :
         /\ o = "rcpt_some" => Len(recipients) >= 2
         /\ IF o \in {"rcpt_all", "timeout"}
            THEN /\ sessions' = ExitSession(UseSession(sessions, server, calls), server, TRUE)
                 /\ failures' = failures \cup {o}
                 /\ ReturnFalse
            ELSE /\ sessions' = ExitSession(UseSession(sessions, server, calls), server, FALSE)
                 /\ failures' = failures \cup (IF o = "rcpt_some" THEN {o} ELSE {})
                                         \cup (IF q = "error" THEN {"quit"} ELSE {})
                 /\ IF q = "ok" THEN ReturnTrue ELSE ReturnFalse
    /\ UNCHANGED <<config, file, recipients, subject, body, attachments, html, msg,
                   connects, server, calls, storeVars, guiVars>>

\* the caller takes the boolean; the call's frame is gone, and with it the
\* SMTP_SSL object if its socket is closed (an open one would stay open)
Return ==
    /\ pc \in Returned
    /\ pc' = "idle"
    /\ recipients' = <<>> /\ subject' = "" /\ body' = "" /\ attachments' = <<>>
    /\ html' = FALSE /\ msg' = NoMsg /\ trace' = <<>> /\ connects' = 0
    /\ server' = 0 /\ ret' = "pending" /\ failures' = {}
    /\ sessions' = SelectSeq(sessions, LAMBDA x : x.open)
    /\ UNCHANGED <<config, file, calls, storeVars, guiVars>>

------------------------------------------------------------------------------
(* Initial values shared by the specifications *)

NoFile == [kind |-> "absent", items |-> <<>>]

SendInit ==
    /\ pc = "idle" /\ recipients = <<>> /\ subject = "" /\ body = ""
    /\ attachments = <<>> /\ html = FALSE /\ msg = NoMsg /\ trace = <<>>
    /\ connects = 0 /\ sessions = <<>> /\ server = 0 /\ ret = "pending"
    /\ failures = {} /\ calls = 0

StoreInit ==
    /\ lastOp = "init" /\ saveIo = "none" /\ saveSeen = "none"
    /\ saved = <<>> /\ before = EmptyDict /\ loaded = EmptyDict

GuiInit ==
    /\ entries = [k \in RequiredKeys |-> ""]
    /\ current_lang = "zh_CN" /\ status = "status_ready" /\ dialog = "none"
    /\ testCause = "none" /\ rejectsAuth = FALSE

Init ==
    /\ config \in DictsOver(RequiredKeys)
    /\ file = NoFile
    /\ SendInit /\ StoreInit /\ GuiInit

Next ==
    \/ \E r \in RecipientLists, s \in Subjects, b \in Bodies,
          a \in AttachmentLists, h \in BOOLEAN : send_mail(r, s, b, a, h)
    \/ Validate
    \/ Compose
    \/ Connect
    \/ Authenticate
    \/ Transmit
    \/ Return

Spec == Init /\ [][Next]_vars

------------------------------------------------------------------------------
(* Properties of send_mail, checked under Spec *)

InCall == pc # "idle"
Entered(phase) == \E i \in 1..Len(trace) : trace[i] = phase
ValidationPasses ==
    /\ recipients # <<>>
    /\ \A k \in RequiredKeys : k \in DOMAIN config /\ config[k] # ""

\* C1: a send_mail call with an empty recipient list opens no SMTP connection,
\* goes from validation straight to its return, and returns False.
C1_EmptyRecipients ==
    (InCall /\ recipients = <<>>) =>
        /\ connects = 0 /\ server = 0
        /\ pc \in {"Validating", "Failed"}
        /\ ret # "True"
        /\ pc = "Failed" => ret = "False"

C1_Witness ==
    /\ pc = "Failed" /\ recipients = <<>> /\ ret = "False"
    /\ \A k \in RequiredKeys : k \in DOMAIN config /\ config[k] # ""

\* C2: with a non-empty recipient list and one of smtp_server, smtp_port,
\* sender_email, password absent or empty, send_mail opens no SMTP connection
\* and returns False.
C2_IncompleteConfig ==
    (InCall /\ recipients # <<>>
            /\ \E k \in RequiredKeys : k \notin DOMAIN config \/ config[k] = "") =>
        /\ connects = 0 /\ server = 0
        /\ pc \in {"Validating", "Failed"}
        /\ ret # "True"
        /\ pc = "Failed" => ret = "False"

C2_Witness ==
    /\ pc = "Failed" /\ recipients # <<>> /\ ret = "False"
    /\ DOMAIN config = RequiredKeys
    /\ config["password"] = ""
    /\ \A k \in RequiredKeys \ {"password"} : config[k] # ""

\* C3: once a call has returned, if a failure occurred in its connect, TLS,
\* login or transmit step (a recipient rejection included), it returned False.
C3_FailureReturnsFalse ==
    (pc \in Returned /\ failures # {}) => ret = "False"

\* the attachment parts a message must carry: one for each readable path of
\* the list, in the order of the list
ReadableOf(l) == SelectSeq(l, LAMBDA p : p \in ReadablePaths)

CarriesReadable(m, l) ==
    /\ Len(m.parts) = 1 + Len(ReadableOf(l))
    /\ m.parts[1].ctype \in {"text/plain", "text/html"}
    /\ \A i \in 1..Len(ReadableOf(l)) :
         /\ m.parts[i + 1].ctype = "application/octet-stream"
         /\ m.parts[i + 1].payload = ReadableOf(l)[i]
         /\ m.parts[i + 1].name = ReadableOf(l)[i][Len(ReadableOf(l)[i])]

\* C4: a call that passed validation reaches the connection step whatever
\* paths of its attachment list are unreadable, its message then carries one
\* attachment part per readable path, in list order, and none for the others;
\* and it returns False only when the port is no number or the network failed.
C4_UnreadableSkipped ==
    /\ (Entered("Connecting")) => CarriesReadable(msg, attachments)
    /\ (pc \in Returned /\ ValidationPasses) =>
          /\ Entered("Connecting")
          /\ ret = "False" => (failures # {} \/ ~IsIntString(config["smtp_port"]))

C4_Witness ==
    /\ pc = "Succeeded" /\ ret = "True"
    /\ attachments = << <<"tmp", "gone.bin">>, <<"home", "a.txt">> >>
    /\ Len(msg.parts) = 2

\* C8: whenever send_mail is not running (before a call, and once it has
\* returned) no SMTP session is open; a session open during a call is the one
\* that call opened; and every session was used by the call that opened it only.
C8_SessionScoped ==
    /\ pc \in Returned \cup {"idle"} => \A i \in 1..Len(sessions) : ~sessions[i].open
    /\ \A i \in 1..Len(sessions) :
         /\ sessions[i].open => (i = server /\ sessions[i].owner = calls)
         /\ sessions[i].users = {sessions[i].owner}
    /\ \A i, j \in 1..Len(sessions) : sessions[i].owner = sessions[j].owner => i = j

C8_Witness ==
    /\ pc = "Failed" /\ calls = 2 /\ Len(sessions) = 1 /\ server = 1
    /\ "auth" \in failures
    /\ sessions[1].owner = 2 /\ ~sessions[1].open

IsPrefix(s, t) == Len(s) <= Len(t) /\ \A i \in 1..Len(s) : s[i] = t[i]

CompleteRuns ==
    { <<"Validating", "Failed">>,
      <<"Validating", "Composing", "Connecting", "Failed">>,
      <<"Validating", "Composing", "Connecting", "Authenticating", "Failed">>,
      <<"Validating", "Composing", "Connecting", "Authenticating", "Transmitting", "Failed">>,
      <<"Validating", "Composing", "Connecting", "Authenticating", "Transmitting",
        "Succeeded">> }

------------------------------------------------------------------------------
(* The configuration store: MailSender(), load_config, save_config *)

\* the order in which a dict's keys are written (any fixed order of the keys)
KeyOrder == <<"smtp_server", "smtp_port", "sender_email", "password", "language", "theme">>

\* The content of the file: absent, text that is no JSON ("garbage": also an
\* empty or cut-off file), or a JSON value: an object or an array, as the
\* sequence of its members, or another value ("number").  A member of an
\* object is a pair <<key, value>>; an element of an array is a sequence too,
\* a pair when it has two items (["k", "v"], or a string of two characters).
Garbage == [kind |-> "garbage", items |-> <<>>]
Number == [kind |-> "number", items |-> <<>>]

\* a str that UTF-8 cannot encode: a lone surrogate, which json.load yields
\* for the escape \ud800
Surrogate == "\\ud800"

Encodable(d) == \A k \in DOMAIN d : d[k] # Surrogate

\* json.dump(d, f, ensure_ascii=False, indent=4), once every chunk is written
json_dump(d) ==
    LET keys == SelectSeq(KeyOrder, LAMBDA k : k \in DOMAIN d)
    IN  [kind |-> "object", items |-> [i \in 1..Len(keys) |-> <<keys[i], d[keys[i]]>>]]

\* dict.update(items): the pairs are stored one by one, and an element that is
\* no pair raises after the pairs before it were stored
RECURSIVE dict_update(_, _)
dict_update(d, items) ==
    IF items = <<>> THEN [dict |-> d, raised |-> FALSE]
    ELSE IF Len(Head(items)) # 2 THEN [dict |-> d, raised |-> TRUE]
    ELSE dict_update(SetItem(d, Head(items)[1], Head(items)[2]), Tail(items))

\* the body of load_config: [dict: config afterwards, raised: the except clause ran]
LoadResult(c, f) ==
    IF f.kind = "absent" THEN [dict |-> c, raised |-> FALSE]
    ELSE IF f.kind \in {"garbage", "number"} THEN [dict |-> c, raised |-> TRUE]
    ELSE dict_update(c, f.items)

\* the file after save_config, for what the disk does: "denied" fails open(),
\* "partial" fails a write after open() has truncated the file.  A value that
\* cannot be encoded fails its write in the same way.
SaveFile(c, f, io) ==
    IF io = "denied" THEN f
    ELSE IF io = "partial" \/ ~Encodable(c) THEN Garbage
    ELSE json_dump(c)

\* what the caller of save_config gets: None, whether the try block completed
\* or the except clause logged the error
SaveOutcome(io) == "None"

DiskOutcomes == {"ok", "denied", "partial"}

StoreKeys == {"smtp_server", "theme"}
StoreValues == {"x", "y", Surrogate}
StoreDicts == UNION { [D -> StoreValues] : D \in SUBSET StoreKeys }

FileSamples ==
    {NoFile, Garbage, Number,
     [kind |-> "array", items |-> << <<"smtp_server", "y">>, <<"c">> >>],
     [kind |-> "array", items |-> << <<"theme", "x">> >>]}
    \cup { json_dump(d) : d \in StoreDicts }

\* MailSender(config): self.config = config or {}; self.load_config()
NewMailSender(c0) ==
    /\ config' = LoadResult(c0, file).dict
    /\ before' = c0
    /\ lastOp' = "new"
    /\ loaded' = Unknown(LoadResult(EmptyDict, file).dict)
    /\ UNCHANGED <<file, saveIo, saveSeen, saved, sendVars, guiVars>>

load_config ==
    /\ config' = LoadResult(config, file).dict
    /\ before' = config
    /\ lastOp' = "load"
    /\ loaded' = Unknown(LoadResult(EmptyDict, file).dict)
    /\ UNCHANGED <<file, saveIo, saveSeen, saved, sendVars, guiVars>>

\* what save_config does to the disk and shows its caller
SaveEffects(c, io) ==
    /\ file' = SaveFile(c, file, io)
    /\ saveIo' = io
    /\ saveSeen' = SaveOutcome(io)
    /\ saved' = IF io = "ok" THEN <<c>> ELSE IF io = "denied" THEN saved ELSE <<>>

save_config(io) ==
    /\ SaveEffects(config, io)
    /\ before' = config
    /\ lastOp' = "save"
    /\ UNCHANGED <<config, loaded, sendVars, guiVars>>

\* the caller replaces the dict: mail_sender.config = c
AssignConfig(c) ==
    /\ config' = c
    /\ before' = config
    /\ lastOp' = "assign"
    /\ UNCHANGED <<file, saveIo, saveSeen, saved, loaded, sendVars, guiVars>>

\* the file is edited, replaced or deleted by its owner
ExternalEdit(f) ==
    /\ file' = f
    /\ f # file
    /\ saved' = <<>>
    /\ before' = config
    /\ lastOp' = "edit"
    /\ UNCHANGED <<config, saveIo, saveSeen, loaded, sendVars, guiVars>>

StoreSpecInit ==
    /\ file \in FileSamples
    /\ config = LoadResult(EmptyDict, file).dict
    /\ SendInit /\ GuiInit
    /\ lastOp = "new" /\ saveIo = "none" /\ saveSeen = "none"
    /\ saved = <<>> /\ before = EmptyDict
    /\ loaded = Unknown(LoadResult(EmptyDict, file).dict)

StoreNext ==
    \/ NewMailSender(EmptyDict)
    \/ load_config
    \/ \E io \in DiskOutcomes : save_config(io)
    \/ \E c \in StoreDicts : AssignConfig(c)
    \/ \E f \in FileSamples : ExternalEdit(f)

SpecStore == StoreSpecInit /\ [][StoreNext]_vars

------------------------------------------------------------------------------
(* Properties of the store, checked under SpecStore *)

\* C5: after a save_config with config = cfg that the disk did not fail, a
\* fresh MailSender (an empty configuration, then load_config) holds cfg's
\* value on every key of cfg.
C5_RoundTrip ==
    (lastOp = "new" /\ before = EmptyDict /\ saved # <<>>) =>
        \A k \in DOMAIN saved[1] : k \in DOMAIN config /\ config[k] = saved[1][k]

\* the load of an existing file ended in load_config's except clause
LoadFailed(f) ==
    \/ f.kind \in {"garbage", "number"}
    \/ f.kind \in {"object", "array"} /\ \E i \in 1..Len(f.items) : Len(f.items[i]) # 2

\* C6: after load_config on a file that exists and could not be loaded, the
\* configuration is what it was before the call.
C6_FailedLoadKeepsConfig ==
    (lastOp = "load" /\ LoadFailed(file)) => config = before

\* C7: the caller of a save_config that failed on the disk observes an outcome
\* other than the outcome of a save that succeeded.
C7_CallerNotified ==
    (lastOp = "save" /\ saveIo \in {"denied", "partial"}) => saveSeen # SaveOutcome("ok")

------------------------------------------------------------------------------
(* MailSenderGUI: the configuration page *)

Langs == {"zh_CN", "en_US"}

BlankEntries == [k \in RequiredKeys |-> ""]

\* _load_config_to_ui: an Entry is overwritten when config has its key
EntriesFrom(c, e) == [k \in RequiredKeys |-> IF k \in DOMAIN c THEN c[k] ELSE e[k]]

LangFrom(c, l) == IF "language" \in DOMAIN c /\ c["language"] \in Langs THEN c["language"] ELSE l

\* the dict _save_config builds from the widgets
ConfigFromUi(e, l) ==
    [k \in RequiredKeys \cup {"language"} |-> IF k = "language" THEN l ELSE e[k]]

\* the user, every message box dismissed, types into an Entry
EditEntry(k, v) ==
    /\ v # entries[k]
    /\ entries' = [entries EXCEPT ![k] = v]
    /\ dialog' = "none"
    /\ lastOp' = "type"
    /\ testCause' = "none" /\ rejectsAuth' = FALSE
    /\ UNCHANGED <<config, file, saveIo, saveSeen, saved, before, loaded, current_lang,
                   status, sendVars>>

_save_config(io) ==
    /\ config' = ConfigFromUi(entries, current_lang)
    /\ SaveEffects(config', io)
    /\ status' = "config_saved"
    /\ dialog' = "info:config_saved_msg"
    /\ lastOp' = "gui_save"
    /\ testCause' = "none" /\ rejectsAuth' = FALSE
    /\ UNCHANGED <<before, loaded, entries, current_lang, sendVars>>

\* where _test_connection stops: on an empty field, on int(port), on
\* SMTP_SSL(...), on login, or, the success shown, on the QUIT of __exit__
TestCause(e, co, lo, q) ==
    IF \E k \in RequiredKeys : e[k] = "" THEN "incomplete"
    ELSE IF ~IsIntString(e["smtp_port"]) THEN "port"
    ELSE IF co # "ok" THEN co
    ELSE IF lo # "ok" THEN lo
    ELSE IF q # "ok" THEN "quit"
    ELSE "ok"

\* a test that stores the fields it tests
TestKeepingFields(e) ==
    /\ config' = [k \in DOMAIN config \cup RequiredKeys |->
                    IF k \in RequiredKeys THEN e[k] ELSE config[k]]
    /\ UNCHANGED <<file, saveIo, saveSeen, saved, before, loaded, entries, current_lang,
                   sendVars>>

\* _test_connection reads the four Entry widgets and nothing of the MailSender
TestFrame(e) ==
    UNCHANGED <<config, file, saveIo, saveSeen, saved, before, loaded, entries,
                current_lang, sendVars>>

_test_connection(co, lo, q) ==
    LET cause == TestCause(entries, co, lo, q) IN
    /\ testCause' = cause
    /\ rejectsAuth' = (co = "ok" /\ lo = "auth")
    /\ status' = IF cause = "incomplete" THEN status
                 ELSE IF cause = "ok" THEN "test_success"
                 ELSE "test_fail"
    /\ dialog' = IF cause = "incomplete" THEN "error:incomplete_smtp"
                 ELSE IF cause = "ok" THEN "info:test_success_msg"
                 ELSE "error:test_fail_msg"
    /\ lastOp' = "test"
    /\ TestFrame(entries)

GuiFileSamples ==
    {NoFile, Garbage,
     json_dump([smtp_server |-> "x", theme |-> "dark"]),
     json_dump([smtp_server |-> "x", smtp_port |-> "465", sender_email |-> "x",
                password |-> "x", language |-> "en_US", theme |-> "dark"])}

\* MailSenderGUI.__init__: MailSender(), then _load_config_to_ui
GuiSpecInit ==
    /\ file \in GuiFileSamples
    /\ config = LoadResult(EmptyDict, file).dict
    /\ entries = EntriesFrom(config, BlankEntries)
    /\ current_lang = LangFrom(config, "zh_CN")
    /\ status = "status_ready" /\ dialog = "none"
    /\ testCause = "none" /\ rejectsAuth = FALSE
    /\ SendInit
    /\ lastOp = "new" /\ saveIo = "none" /\ saveSeen = "none"
    /\ saved = <<>> /\ before = EmptyDict
    /\ loaded = Unknown(LoadResult(EmptyDict, file).dict)

GuiNext ==
    \/ \E k \in RequiredKeys : \E v \in ValuesOf(k) : EditEntry(k, v)
    \/ \E io \in DiskOutcomes : _save_config(io)
    \/ \E co \in ConnectOutcomes :
         \E lo \in (IF co = "ok" THEN LoginOutcomes ELSE {"ok"}) :
           \E q \in (IF lo = "ok" THEN QuitOutcomes ELSE {"ok"}) :
             _test_connection(co, lo, q)

SpecGui == GuiSpecInit /\ [][GuiNext]_vars

------------------------------------------------------------------------------
(* Properties of the GUI handlers, checked under SpecGui *)

TestRan == lastOp = "test" /\ testCause # "incomplete"

\* C10: a connection test against an endpoint that refuses the login ends with
\* the failure status and the failure dialog, and no step of _test_connection
\* changes the configuration file or MailSender.config.
C10_TestConnection ==
    /\ [](TestRan /\ IsIntString(entries["smtp_port"]) /\ rejectsAuth =>
            status = "test_fail" /\ dialog = "error:test_fail_msg")
    /\ [][lastOp' = "test" => (config' = config /\ file' = file)]_vars

C10_Witness ==
    /\ TestRan /\ rejectsAuth /\ testCause = "auth"
    /\ status = "test_fail"
    /\ saved # <<>> /\ config = saved[1] /\ file = json_dump(config)

HasPair(f, k, v) ==
    f.kind = "object" /\ \E i \in 1..Len(f.items) : f.items[i] = <<k, v>>

\* C11: while the file is as a save of the configuration wrote it, every key
\* outside the recognized set that the file held when it was loaded is in the
\* file, with the value it was loaded with.
C11_UnknownKeysKept ==
    saved # <<>> =>
        \A k \in DOMAIN loaded : HasPair(file, k, loaded[k])

------------------------------------------------------------------------------
(* The port that is no number, checked under Spec *)

BadPortRun == <<"Validating", "Composing", "Connecting", "Failed">>

\* C12: a call whose recipients and four keys pass validation and whose
\* smtp_port is not convertible to an integer goes through validation and
\* composition, makes no SMTP_SSL call and opens no session, and returns False
\* to its caller from the connection step, nothing raised.
C12_BadPort ==
    (InCall /\ ValidationPasses /\ ~IsIntString(config["smtp_port"])) =>
        /\ IsPrefix(trace, BadPortRun)
        /\ connects = 0 /\ server = 0 /\ failures = {}
        /\ \A i \in 1..Len(sessions) : sessions[i].owner # calls
        /\ ret \in {"pending", "False"}
        /\ pc \in Returned =>
              /\ trace = BadPortRun
              /\ ret = "False"
              /\ CarriesReadable(msg, attachments)
              /\ msg.From = config["sender_email"] /\ msg.To = Join(recipients)

C12_Witness ==
    /\ pc = "Failed" /\ ret = "False" /\ trace = BadPortRun
    /\ ValidationPasses /\ config["smtp_port"] = "abc"
    /\ attachments # <<>> /\ calls = 2

====
